---- MODULE Spec2Model ----
(***************************************************************************)
(* Model of the options_escrow program (src/options_escrow/src/lib.rs):    *)
(* the escrow record, the governance record, the token balances the seven  *)
(* instructions move, and the result each instruction returns.             *)
(*                                                                         *)
(* An instruction is one action.  An instruction that returns Err leaves   *)
(* every account as it was (the transaction is rolled back); only the      *)
(* returned result, kept in `last`, tells the call happened.               *)
(***************************************************************************)
EXTENDS Integers, FiniteSets, Sequences, TLC

(***************************************************************************)
(* Bounds of the model.                                                    *)
(***************************************************************************)
\* Width of the unsigned integers of the model: u64 scaled down to U64Bits bits.
U64Bits == 15
\* The clock runs from 0 to MaxTime.
MaxTime == 2

\* The divisor of the fee computation (a rate is in basis points).
BasisPoints == 10000

U64Modulus == 2 ^ U64Bits

(***************************************************************************)
(* The world around the program: signers, mints, token accounts.           *)
(***************************************************************************)
\* Identities (public keys) that own token accounts or sign transactions: the
\* initializer I, the option holder U, the authority V of the escrow holding
\* accounts "ea" and "ea2", the owner F of the fee accounts.
Keys == {"I", "U", "V", "F"}
\* Token mints.
Mints == {"A", "B"}
\* Token accounts (holding accounts), each of one mint and one owner.
TokenAccounts == {"ia", "ua", "ea", "ea2", "fa", "ib", "fb"}

MintOf(acc) ==
    CASE acc \in {"ia", "ua", "ea", "ea2", "fa"} -> "A"
      [] acc \in {"ib", "fb"} -> "B"

OwnerOf(acc) ==
    CASE acc \in {"ia", "ib"} -> "I"
      [] acc = "ua" -> "U"
      [] acc \in {"ea", "ea2"} -> "V"
      [] acc \in {"fa", "fb"} -> "F"

\* The balances before the first instruction.
InitialAmount ==
    [acc \in TokenAccounts |->
        CASE acc = "ia" -> 6
          [] acc = "ua" -> 4
          [] acc = "ib" -> 4
          [] OTHER -> 0]

\* Addresses at which an escrow record can be created.
EscrowIds == {"e1", "e2"}

\* The value of a record's slot before `init` has created the record.
NoAccount == [exists |-> FALSE]

OptionTypes == {"Call", "Put"}

VARIABLES
    governance,       \* the governance record, or NoAccount
    escrow,           \* escrow record address -> the record, or NoAccount
    amount,           \* token account -> balance
    now,              \* Clock::get()?.unix_timestamp
    overflow_checks,  \* whether the build traps integer overflow (else it wraps)
    last              \* the last instruction: its name, arguments and result

vars == <<governance, escrow, amount, now, overflow_checks, last>>

(***************************************************************************)
(* Unsigned arithmetic of the program's width.  An overflowing `*` or `-`  *)
(* traps in a build with overflow checks and wraps in a build without.     *)
(***************************************************************************)
Panic == -1

MulU64(a, b, checks) ==
    IF a * b < U64Modulus THEN a * b
    ELSE IF checks THEN Panic
    ELSE (a * b) % U64Modulus

SubU64(a, b, checks) ==
    IF a >= b THEN a - b
    ELSE IF checks THEN Panic
    ELSE (a - b + U64Modulus) % U64Modulus

\* Mutant: the rate taken as per mille, not as basis points.
FeeOf_PerMille(collateral_amount, fee_rate, checks) ==
    LET product == MulU64(collateral_amount, fee_rate, checks)
    IN  IF product = Panic THEN Panic ELSE product \div 1000

\* let fee = collateral_amount * governance.fee_rate / 10000;
FeeOf(collateral_amount, fee_rate, checks) ==
    LET product == MulU64(collateral_amount, fee_rate, checks)
    IN  IF product = Panic THEN Panic ELSE product \div BasisPoints

\* let amount_after_fee = escrow_account.collateral_amount - fee;
AmountAfterFee(collateral_amount, fee, checks) ==
    IF fee = Panic THEN Panic ELSE SubU64(collateral_amount, fee, checks)

(***************************************************************************)
(* The token program's transfer, called through token::transfer.           *)
(***************************************************************************)
TokenTransfer(bal, from, to, authority, amt) ==
    IF bal[from] < amt THEN [ok |-> FALSE, err |-> "InsufficientFunds", bal |-> bal]
    ELSE IF MintOf(from) # MintOf(to) THEN [ok |-> FALSE, err |-> "MintMismatch", bal |-> bal]
    ELSE IF OwnerOf(from) # authority THEN [ok |-> FALSE, err |-> "OwnerMismatch", bal |-> bal]
    ELSE IF from = to \/ amt = 0 THEN [ok |-> TRUE, err |-> "Ok", bal |-> bal]
    ELSE [ok |-> TRUE, err |-> "Ok",
          bal |-> [bal EXCEPT ![from] = @ - amt, ![to] = @ + amt]]

(***************************************************************************)
(* Account validation of the instruction contexts (#[derive(Accounts)]).   *)
(* Each returns "Ok" or the error that rejects the instruction before its  *)
(* handler runs.                                                           *)
(***************************************************************************)
\* Mutant: init_if_needed, which accepts a record that exists already.
InitializeEscrow_IfNeeded(esc, gov) ==
    IF ~gov.exists THEN "AccountNotInitialized" ELSE "Ok"

\* #[account(init, ...)] escrow_account; governance: Account<Governance>
InitializeEscrow(esc, gov) ==
    IF esc.exists THEN "AccountAlreadyInUse"
    ELSE IF ~gov.exists THEN "AccountNotInitialized"
    ELSE "Ok"

\* escrow_account: Account<EscrowAccount>
DepositCollateral(esc) ==
    IF ~esc.exists THEN "AccountNotInitialized" ELSE "Ok"

\* escrow_account: Account<EscrowAccount>; governance: Account<Governance>
SettleEscrow(esc, gov) ==
    IF ~esc.exists \/ ~gov.exists THEN "AccountNotInitialized" ELSE "Ok"

\* Signer<'info>: the account passed must have signed the transaction.  In a
\* governance context, ctx.signer is the identity that signed and
\* ctx.governance_authority the account it passed.
IsSigner(ctx) ==
    ctx.governance_authority = ctx.signer

\* Mutant: the has_one constraint left out.
UpdateGovernance_NoHasOne(gov, ctx) ==
    IF ~gov.exists THEN "AccountNotInitialized"
    ELSE IF ~IsSigner(ctx) THEN "AccountNotSigner"
    ELSE "Ok"

\* #[account(mut, has_one = governance_authority)] governance;
\* governance_authority: Signer
UpdateGovernance(gov, ctx) ==
    IF ~gov.exists THEN "AccountNotInitialized"
    ELSE IF ~IsSigner(ctx) THEN "AccountNotSigner"
    ELSE IF gov.governance_authority # ctx.governance_authority THEN "ConstraintHasOne"
    ELSE "Ok"

\* #[account(init, payer = governance_authority, ...)] governance;
\* governance_authority: Signer
InitializeGovernance(gov, ctx) ==
    IF gov.exists THEN "AccountAlreadyInUse"
    ELSE IF ~IsSigner(ctx) THEN "AccountNotSigner"
    ELSE "Ok"

(***************************************************************************)
(* The handlers.  Each returns the instruction's outcome: its result, the  *)
(* balances and the record as the handler leaves them, and the number of   *)
(* token transfers that succeeded (cpi).                                   *)
(***************************************************************************)
Outcome(result, bal, rec, cpi) ==
    [result |-> result, amount |-> bal, record |-> rec, cpi |-> cpi]

initialize_escrow(esc, gov, bal, checks, ctx, option_type, strike_price, expiration, collateral_amount, collateral_mint) ==
    LET escrow_account ==
            [exists |-> TRUE,
             initializer_key |-> ctx.initializer,
             option_type |-> option_type,
             strike_price |-> strike_price,
             expiration |-> expiration,
             collateral_amount |-> collateral_amount,
             collateral_mint |-> collateral_mint,
             is_exercised |-> FALSE]
        fee == FeeOf(collateral_amount, gov.fee_rate, checks)
        t == TokenTransfer(bal, ctx.initializer_collateral_account, ctx.fee_collector,
                           ctx.initializer, fee)
    IN  IF fee = Panic THEN Outcome("ArithmeticPanic", bal, esc, 0)
        ELSE IF ~t.ok THEN Outcome(t.err, bal, esc, 0)
        ELSE Outcome("Ok", t.bal, escrow_account, 1)

\* Mutant: the mint check left out.
MintCheckFails_Never(account_mint, collateral_mint) ==
    FALSE

\* if ctx.accounts.user_collateral_account.mint != escrow_account.collateral_mint
MintCheckFails(account_mint, collateral_mint) ==
    account_mint # collateral_mint

\* Mutant: deposits taken only while the record is not exercised.
deposit_collateral_WhileOpen(esc, bal, ctx, amt) ==
    LET t == TokenTransfer(bal, ctx.user_collateral_account, ctx.escrow_collateral_account,
                           ctx.user, amt)
    IN  IF esc.is_exercised THEN Outcome("OptionAlreadyExercised", bal, esc, 0)
        ELSE IF MintCheckFails(MintOf(ctx.user_collateral_account), esc.collateral_mint)
        THEN Outcome("IncorrectCollateralMint", bal, esc, 0)
        ELSE IF ~t.ok THEN Outcome(t.err, bal, esc, 0)
        ELSE Outcome("Ok", t.bal, esc, 1)

deposit_collateral(esc, bal, ctx, amt) ==
    LET t == TokenTransfer(bal, ctx.user_collateral_account, ctx.escrow_collateral_account,
                           ctx.user, amt)
    IN  IF MintCheckFails(MintOf(ctx.user_collateral_account), esc.collateral_mint)
        THEN Outcome("IncorrectCollateralMint", bal, esc, 0)
        ELSE IF ~t.ok THEN Outcome(t.err, bal, esc, 0)
        ELSE Outcome("Ok", t.bal, esc, 1)

\* Mutant: the expiration itself counted as too early.
ExpiryCheckFails_Inclusive(current_time, expiration) ==
    current_time <= expiration

\* if current_time < escrow_account.expiration
ExpiryCheckFails(current_time, expiration) ==
    current_time < expiration

\* Mutant: the two comparisons joined with || in place of &&.
EarlyExerciseCheckFails_Either(option_type) ==
    option_type # "Call" \/ option_type # "Put"

\* if escrow_account.option_type != Call && escrow_account.option_type != Put
EarlyExerciseCheckFails(option_type) ==
    option_type # "Call" /\ option_type # "Put"

\* Mutant: the two branches of is_itm exchanged.
SettlementDestination_Exchanged(ctx, is_itm) ==
    IF is_itm THEN ctx.initializer_collateral_account
    ELSE ctx.user_collateral_account

\* The account the first transfer of a settlement credits.
SettlementDestination(ctx, is_itm) ==
    IF is_itm THEN ctx.user_collateral_account
    ELSE ctx.initializer_collateral_account

\* Mutant: the settlement also clearing the amount it paid out.
MarkExercised_Cleared(esc) ==
    [esc EXCEPT !.is_exercised = TRUE, !.collateral_amount = 0]

\* escrow_account.is_exercised = true;
MarkExercised(esc) ==
    [esc EXCEPT !.is_exercised = TRUE]

\* Mutant: the second transfer's error dropped, the handler carrying on.
SecondTransferFailed_Ignored(err, bal_before, bal_after_first, esc) ==
    Outcome("Ok", bal_after_first, [esc EXCEPT !.is_exercised = TRUE], 1)

\* The outcome of a handler whose second transfer returned Err: the error is
\* returned with `?` and the first transfer is rolled back with the transaction.
SecondTransferFailed(err, bal_before, bal_after_first, esc) ==
    Outcome(err, bal_before, esc, 1)

\* The part settle_escrow and exercise_early have in common: the fee, the two
\* transfers out of the escrow holding account, the flag.
SettlementTransfers(esc, gov, bal, checks, ctx, is_itm) ==
    LET fee == FeeOf(esc.collateral_amount, gov.fee_rate, checks)
        amount_after_fee == AmountAfterFee(esc.collateral_amount, fee, checks)
        t1 == TokenTransfer(bal, ctx.escrow_collateral_account,
                            SettlementDestination(ctx, is_itm),
                            ctx.escrow_authority, amount_after_fee)
        t2 == TokenTransfer(t1.bal, ctx.escrow_collateral_account, ctx.fee_collector,
                            ctx.escrow_authority, fee)
    IN  IF fee = Panic \/ amount_after_fee = Panic
        THEN Outcome("ArithmeticPanic", bal, esc, 0)
        ELSE IF ~t1.ok THEN Outcome(t1.err, bal, esc, 0)
        ELSE IF ~t2.ok THEN SecondTransferFailed(t2.err, bal, t1.bal, esc)
        ELSE Outcome("Ok", t2.bal, MarkExercised(esc), 2)

\* Mutant: the expiration checked before the flag.
settle_escrow_ExpiryFirst(esc, gov, bal, current_time, checks, ctx, is_itm) ==
    IF ExpiryCheckFails(current_time, esc.expiration)
    THEN Outcome("OptionNotExpired", bal, esc, 0)
    ELSE IF esc.is_exercised THEN Outcome("OptionAlreadyExercised", bal, esc, 0)
    ELSE SettlementTransfers(esc, gov, bal, checks, ctx, is_itm)

settle_escrow(esc, gov, bal, current_time, checks, ctx, is_itm) ==
    IF esc.is_exercised THEN Outcome("OptionAlreadyExercised", bal, esc, 0)
    ELSE IF ExpiryCheckFails(current_time, esc.expiration)
    THEN Outcome("OptionNotExpired", bal, esc, 0)
    ELSE SettlementTransfers(esc, gov, bal, checks, ctx, is_itm)

exercise_early(esc, gov, bal, checks, ctx, is_itm) ==
    IF esc.is_exercised THEN Outcome("OptionAlreadyExercised", bal, esc, 0)
    ELSE IF EarlyExerciseCheckFails(esc.option_type)
    THEN Outcome("CannotExerciseEarly", bal, esc, 0)
    ELSE SettlementTransfers(esc, gov, bal, checks, ctx, is_itm)

update_governance(gov, new_fee_rate, new_fee_collector) ==
    [gov EXCEPT !.fee_rate = new_fee_rate, !.fee_collector = new_fee_collector]

initialize_governance(governance_authority, fee_rate, fee_collector) ==
    [exists |-> TRUE,
     fee_rate |-> fee_rate,
     fee_collector |-> fee_collector,
     governance_authority |-> governance_authority]

\* Mutant: a handoff that waits for the new authority to accept.
transfer_governance_Pending(gov, new_governance_authority) ==
    gov

transfer_governance(gov, new_governance_authority) ==
    [gov EXCEPT !.governance_authority = new_governance_authority]

(***************************************************************************)
(* The state after deployment: no record exists, the clock is at 0, the    *)
(* build either traps overflow or wraps.                                   *)
(***************************************************************************)
NoCall == [op |-> "none", e |-> "-", ctx |-> <<>>, args |-> <<>>, result |-> "Ok", cpi |-> 0]

Init ==
    /\ governance = NoAccount
    /\ escrow = [e \in EscrowIds |-> NoAccount]
    /\ amount = InitialAmount
    /\ now = 0
    /\ overflow_checks \in BOOLEAN
    /\ last = NoCall

Call(op, e, ctx, args, result, cpi) ==
    [op |-> op, e |-> e, ctx |-> ctx, args |-> args, result |-> result, cpi |-> cpi]

(***************************************************************************)
(* The instructions.  D gives the sets the callers' inputs are drawn from. *)
(* A rejected or failed instruction changes nothing but `last`.            *)
(***************************************************************************)
CallInitializeGovernance(D) ==
    \E ctx \in D.governance_ctxs, fee_rate \in D.fee_rates,
       fee_collector \in D.fee_collectors :
        LET v == InitializeGovernance(governance, ctx)
        IN  /\ governance' = IF v = "Ok"
                             THEN initialize_governance(ctx.governance_authority, fee_rate,
                                                        fee_collector)
                             ELSE governance
            /\ last' = Call("initialize_governance", "-", ctx,
                            [fee_rate |-> fee_rate, fee_collector |-> fee_collector], v, 0)
            /\ UNCHANGED <<escrow, amount, now, overflow_checks>>

CallUpdateGovernance(D) ==
    \E ctx \in D.governance_ctxs, new_fee_rate \in D.fee_rates,
       new_fee_collector \in D.fee_collectors :
        LET v == UpdateGovernance(governance, ctx)
        IN  /\ governance' = IF v = "Ok"
                             THEN update_governance(governance, new_fee_rate, new_fee_collector)
                             ELSE governance
            /\ last' = Call("update_governance", "-", ctx,
                            [new_fee_rate |-> new_fee_rate,
                             new_fee_collector |-> new_fee_collector], v, 0)
            /\ UNCHANGED <<escrow, amount, now, overflow_checks>>

CallTransferGovernance(D) ==
    \E ctx \in D.governance_ctxs, new_governance_authority \in D.new_authorities :
        LET v == UpdateGovernance(governance, ctx)
        IN  /\ governance' = IF v = "Ok"
                             THEN transfer_governance(governance, new_governance_authority)
                             ELSE governance
            /\ last' = Call("transfer_governance", "-", ctx,
                            [new_governance_authority |-> new_governance_authority], v, 0)
            /\ UNCHANGED <<escrow, amount, now, overflow_checks>>

\* The accounts change as the outcome says when the instruction returned Ok, and
\* not at all when it returned Err.
Commit(e, out) ==
    IF out.result = "Ok"
    THEN /\ amount' = out.amount
         /\ escrow' = [escrow EXCEPT ![e] = out.record]
    ELSE UNCHANGED <<amount, escrow>>

Rejected(result) == [result |-> result, cpi |-> 0]

CallInitializeEscrow(D) ==
    \E e \in D.escrow_ids, ctx \in D.initialize_ctxs, option_type \in D.option_types,
       strike_price \in D.strike_prices, expiration \in D.expirations,
       collateral_amount \in D.collateral_amounts, collateral_mint \in D.collateral_mints :
        LET v == InitializeEscrow(escrow[e], governance)
            out == IF v # "Ok" THEN Rejected(v)
                   ELSE initialize_escrow(escrow[e], governance, amount, overflow_checks, ctx,
                                          option_type, strike_price, expiration,
                                          collateral_amount, collateral_mint)
        IN  /\ Commit(e, out)
            /\ last' = Call("initialize_escrow", e, ctx,
                            [option_type |-> option_type, strike_price |-> strike_price,
                             expiration |-> expiration,
                             collateral_amount |-> collateral_amount,
                             collateral_mint |-> collateral_mint], out.result, out.cpi)
            /\ UNCHANGED <<governance, now, overflow_checks>>

CallDepositCollateral(D) ==
    \E e \in D.escrow_ids, ctx \in D.deposit_ctxs, amt \in D.deposit_amounts :
        LET v == DepositCollateral(escrow[e])
            out == IF v # "Ok" THEN Rejected(v)
                   ELSE deposit_collateral(escrow[e], amount, ctx, amt)
        IN  /\ Commit(e, out)
            /\ last' = Call("deposit_collateral", e, ctx, [amount |-> amt],
                            out.result, out.cpi)
            /\ UNCHANGED <<governance, now, overflow_checks>>

CallSettleEscrow(D) ==
    \E e \in D.escrow_ids, ctx \in D.settle_ctxs, is_itm \in BOOLEAN :
        LET v == SettleEscrow(escrow[e], governance)
            out == IF v # "Ok" THEN Rejected(v)
                   ELSE settle_escrow(escrow[e], governance, amount, now, overflow_checks,
                                      ctx, is_itm)
        IN  /\ Commit(e, out)
            /\ last' = Call("settle_escrow", e, ctx, [is_itm |-> is_itm],
                            out.result, out.cpi)
            /\ UNCHANGED <<governance, now, overflow_checks>>

CallExerciseEarly(D) ==
    \E e \in D.escrow_ids, ctx \in D.settle_ctxs, is_itm \in BOOLEAN :
        LET v == SettleEscrow(escrow[e], governance)
            out == IF v # "Ok" THEN Rejected(v)
                   ELSE exercise_early(escrow[e], governance, amount, overflow_checks,
                                       ctx, is_itm)
        IN  /\ Commit(e, out)
            /\ last' = Call("exercise_early", e, ctx, [is_itm |-> is_itm],
                            out.result, out.cpi)
            /\ UNCHANGED <<governance, now, overflow_checks>>

\* The cluster's clock advances.
Tick ==
    /\ now < MaxTime
    /\ now' = now + 1
    /\ last' = Call("tick", "-", <<>>, <<>>, "Ok", 0)
    /\ UNCHANGED <<governance, escrow, amount, overflow_checks>>

Program(D) ==
    \/ CallInitializeGovernance(D)
    \/ CallUpdateGovernance(D)
    \/ CallTransferGovernance(D)
    \/ CallInitializeEscrow(D)
    \/ CallDepositCollateral(D)
    \/ CallSettleEscrow(D)
    \/ CallExerciseEarly(D)
    \/ Tick

(***************************************************************************)
(* The inputs the callers choose from.                                     *)
(***************************************************************************)
\* The accounts the parties would pass to a settlement: the holder U receives
\* at "ua", the initializer I at "ia", the fees go to "fa", the collateral is
\* held at "ea" under the authority V.  The escrow_authority passed co-signs the
\* transaction (the handlers pass no signer seeds to the transfer); the token
\* accounts of one context are distinct.
IntendedSettleCtx ==
    [user |-> "U", user_collateral_account |-> "ua", escrow_collateral_account |-> "ea",
     initializer_collateral_account |-> "ia", escrow_authority |-> "V",
     fee_collector |-> "fa"]

SettleCtxs ==
    { IntendedSettleCtx,
      \* the initializer submits the settlement
      [IntendedSettleCtx EXCEPT !.user = "I"],
      \* an authority that does not own the escrow holding account
      [IntendedSettleCtx EXCEPT !.escrow_authority = "I"],
      \* a fee account of another mint
      [IntendedSettleCtx EXCEPT !.fee_collector = "fb"],
      \* the holder's account passed as the initializer's, and the reverse
      [IntendedSettleCtx EXCEPT !.user_collateral_account = "ia",
                                !.initializer_collateral_account = "ua"],
      \* the holder's account passed as the fee account, and the reverse
      [IntendedSettleCtx EXCEPT !.user_collateral_account = "fa",
                                !.fee_collector = "ua"] }

InitializeCtxs ==
    { [initializer |-> "I", initializer_collateral_account |-> "ia", fee_collector |-> "fa"],
      [initializer |-> "U", initializer_collateral_account |-> "ua", fee_collector |-> "fa"],
      [initializer |-> "I", initializer_collateral_account |-> "ib", fee_collector |-> "fb"],
      [initializer |-> "I", initializer_collateral_account |-> "ib", fee_collector |-> "fa"],
      [initializer |-> "U", initializer_collateral_account |-> "ia", fee_collector |-> "fa"] }

DepositCtxs ==
    { [user |-> "I", user_collateral_account |-> "ia", escrow_collateral_account |-> "ea"],
      [user |-> "U", user_collateral_account |-> "ua", escrow_collateral_account |-> "ea"],
      [user |-> "I", user_collateral_account |-> "ib", escrow_collateral_account |-> "ea"],
      [user |-> "U", user_collateral_account |-> "ia", escrow_collateral_account |-> "ea"] }

\* The inputs of the intended use: one record, one signer of each role, one of
\* each account.
IntendedInputs ==
    [escrow_ids |-> {"e1"},
     governance_ctxs |-> {[signer |-> "I", governance_authority |-> "I"]},
     new_authorities |-> {"I"},
     fee_rates |-> {5000},
     fee_collectors |-> {"fa"},
     initialize_ctxs |-> {[initializer |-> "I", initializer_collateral_account |-> "ia",
                           fee_collector |-> "fa"]},
     option_types |-> {"Call"},
     strike_prices |-> {100},
     expirations |-> {1},
     collateral_amounts |-> {4},
     collateral_mints |-> {"A"},
     deposit_ctxs |-> {[user |-> "I", user_collateral_account |-> "ia",
                        escrow_collateral_account |-> "ea"]},
     deposit_amounts |-> {4},
     settle_ctxs |-> {IntendedSettleCtx}]

(***************************************************************************)
(* Spec: the escrow lifecycle.  The terms, the deposits, the settlement    *)
(* accounts and the fee rate vary; the governance authority does not.      *)
(***************************************************************************)
LifecycleInputs ==
    [IntendedInputs EXCEPT
        !.fee_rates = {5000, 10000, 20000},
        !.option_types = OptionTypes,
        !.collateral_amounts = {1, 4},
        !.deposit_amounts = {2, 4},
        !.settle_ctxs = {IntendedSettleCtx,
                         [IntendedSettleCtx EXCEPT !.escrow_authority = "I"],
                         [IntendedSettleCtx EXCEPT !.fee_collector = "fb"]}]

Next == Program(LifecycleInputs)

Spec == Init /\ [][Next]_vars

(***************************************************************************)
(* SpecGov: the governance record.  The signers, the rates and the fee     *)
(* collectors of the governance instructions vary.                         *)
(***************************************************************************)
GovInputs ==
    [IntendedInputs EXCEPT
        !.governance_ctxs = [signer : {"I", "U"}, governance_authority : {"I", "U"}],
        !.new_authorities = {"I", "U"},
        !.fee_rates = {5000, 10000, 20000},
        !.fee_collectors = {"fa", "ua"}]

NextGov == Program(GovInputs)

SpecGov == Init /\ [][NextGov]_vars

(***************************************************************************)
(* SpecAssets: the mints.  The accounts passed to initialize_escrow and    *)
(* deposit_collateral and the record's collateral_mint vary.               *)
(***************************************************************************)
AssetInputs ==
    [IntendedInputs EXCEPT
        !.initialize_ctxs = InitializeCtxs,
        !.collateral_mints = Mints,
        !.deposit_ctxs = DepositCtxs,
        !.deposit_amounts = {2, 8}]

NextAssets == Program(AssetInputs)

SpecAssets == Init /\ [][NextAssets]_vars

(***************************************************************************)
(* SpecAccounts: the accounts of a settlement.  The token accounts and the *)
(* signers passed to settle_escrow and exercise_early vary, and so does    *)
(* the fee collector the governance record names.                          *)
(***************************************************************************)
AccountInputs ==
    [IntendedInputs EXCEPT
        !.fee_collectors = {"fa", "ua"},
        !.settle_ctxs = SettleCtxs]

NextAccounts == Program(AccountInputs)

SpecAccounts == Init /\ [][NextAccounts]_vars

(***************************************************************************)
(* SpecPair: two records.  Either record is created, funded and settled,   *)
(* through the holding account "ea" or the holding account "ea2", by the   *)
(* initializer's deposits or the holder's.                                 *)
(***************************************************************************)
PairInputs ==
    [IntendedInputs EXCEPT
        !.escrow_ids = EscrowIds,
        !.collateral_amounts = {2},
        !.deposit_ctxs = {[user |-> "I", user_collateral_account |-> "ia",
                           escrow_collateral_account |-> "ea"],
                          [user |-> "U", user_collateral_account |-> "ua",
                           escrow_collateral_account |-> "ea2"]},
        !.deposit_amounts = {2},
        !.settle_ctxs = {IntendedSettleCtx,
                         [IntendedSettleCtx EXCEPT !.escrow_collateral_account = "ea2"]}]

NextPair == Program(PairInputs)

SpecPair == Init /\ [][NextPair]_vars

(***************************************************************************)
(* SpecFee: the fee computation alone, on every amount of the width and on *)
(* rates at, below and above 100%.  The initial state holds the inputs,    *)
(* the step computes the fee and the remainder as the settlement does.     *)
(***************************************************************************)
FeeRatesTried == {0, 1, 2500, 5000, 9999, 10000, 10001, 20000}

InitFee ==
    /\ governance = NoAccount
    /\ escrow = [e \in EscrowIds |-> NoAccount]
    /\ amount = InitialAmount
    /\ now = 0
    /\ overflow_checks \in BOOLEAN
    /\ \E a \in 0 .. (U64Modulus - 1), r \in FeeRatesTried :
        last = Call("fee_input", "-", <<>>, [collateral_amount |-> a, fee_rate |-> r], "-", 0)

ComputeFee ==
    /\ last.op = "fee_input"
    /\ LET fee == FeeOf(last.args.collateral_amount, last.args.fee_rate, overflow_checks)
           amount_after_fee == AmountAfterFee(last.args.collateral_amount, fee, overflow_checks)
       IN  last' = Call("fee", "-", <<>>, last.args,
                        [fee |-> fee, amount_after_fee |-> amount_after_fee], 0)
    /\ UNCHANGED <<governance, escrow, amount, now, overflow_checks>>

NextFee == ComputeFee

SpecFee == InitFee /\ [][NextFee]_vars

(***************************************************************************)
(* Properties.                                                             *)
(***************************************************************************)
IsSettlement(op) == op \in {"settle_escrow", "exercise_early"}

IsGovernanceUpdate(op) == op \in {"update_governance", "transfer_governance"}

Exercised(esc) == esc.exists /\ esc.is_exercised

\* C1: once a settle_escrow or exercise_early on a record has succeeded, the
\* record's is_exercised is true, it stays true, and every settle_escrow or
\* exercise_early on the record then fails with OptionAlreadyExercised, at any
\* time and for either is_itm, changing no balance and no record.
C1_ExercisedOnce ==
    [][\A e \in EscrowIds :
        /\ (IsSettlement(last'.op) /\ last'.e = e /\ last'.result = "Ok")
              => Exercised(escrow'[e])
        /\ Exercised(escrow[e]) =>
              /\ Exercised(escrow'[e])
              /\ (IsSettlement(last'.op) /\ last'.e = e)
                    => /\ last'.result = "OptionAlreadyExercised"
                       /\ amount' = amount
                       /\ escrow' = escrow]_vars

\* A settle_escrow on an exercised record was refused before the expiration.
C1_Witness ==
    /\ last.op = "settle_escrow"
    /\ last.result = "OptionAlreadyExercised"
    /\ now < escrow[last.e].expiration

\* C2: is_exercised is false when the record is created and, once true, is true
\* after every step, whatever instruction the step is.
C2_ExercisedMonotonic ==
    [][\A e \in EscrowIds :
        /\ (~escrow[e].exists /\ escrow'[e].exists) => ~escrow'[e].is_exercised
        /\ Exercised(escrow[e]) => Exercised(escrow'[e])]_vars

\* An instruction other than a settlement ran on an exercised record.
C2_Witness ==
    /\ last.op \in {"initialize_escrow", "deposit_collateral"}
    /\ Exercised(escrow[last.e])

\* C3: settle_escrow on a record not yet exercised fails with OptionNotExpired
\* while now < expiration, moving nothing and leaving the record as it was; at
\* now = expiration it does not fail with OptionNotExpired.
C3_NotBeforeExpiration ==
    [][\A e \in EscrowIds :
        (last'.op = "settle_escrow" /\ last'.e = e /\ escrow[e].exists
            /\ ~escrow[e].is_exercised)
        => /\ now < escrow[e].expiration
                => /\ last'.result = "OptionNotExpired"
                   /\ amount' = amount
                   /\ escrow' = escrow
           /\ now = escrow[e].expiration => last'.result # "OptionNotExpired"]_vars

C3_Witness ==
    /\ last.op = "settle_escrow"
    /\ last.result = "OptionNotExpired"
    /\ ~escrow[last.e].is_exercised

\* The fee and the remainder of the fee schedule, in unbounded integers.
ExactFee(collateral_amount, fee_rate) == (collateral_amount * fee_rate) \div BasisPoints

\* The balances after a settlement that pays `net` to the holder (in the money)
\* or to the initializer (out of the money) and `fee` to the fee collector.
AfterSettlement(bal, ctx, is_itm, net, fee) ==
    LET to == IF is_itm THEN ctx.user_collateral_account
              ELSE ctx.initializer_collateral_account
    IN  [acc \in TokenAccounts |->
            bal[acc]
            - (IF acc = ctx.escrow_collateral_account THEN net + fee ELSE 0)
            + (IF acc = to THEN net ELSE 0)
            + (IF acc = ctx.fee_collector THEN fee ELSE 0)]

\* C4: a successful settle_escrow or exercise_early under a rate r <= 10000, r
\* being the governance rate when it runs, takes collateral_amount out of the
\* escrow holding account: collateral_amount - floor(collateral_amount * r / 10000)
\* to the holder or the initializer, floor(collateral_amount * r / 10000) to the
\* fee collector, and sets is_exercised.
C4_SettlementAmounts ==
    [][\A e \in EscrowIds :
        (IsSettlement(last'.op) /\ last'.e = e /\ last'.result = "Ok"
            /\ governance.fee_rate <= BasisPoints)
        => LET fee == ExactFee(escrow[e].collateral_amount, governance.fee_rate)
           IN  /\ amount' = AfterSettlement(amount, last'.ctx, last'.args.is_itm,
                                            escrow[e].collateral_amount - fee, fee)
               /\ escrow'[e].is_exercised]_vars

\* C4 where the product collateral_amount * fee_rate fits the width: this part
\* of the claim holds of the code.
C4_SettlementAmountsWithoutOverflow ==
    [][\A e \in EscrowIds :
        (IsSettlement(last'.op) /\ last'.e = e /\ last'.result = "Ok"
            /\ governance.fee_rate <= BasisPoints
            /\ escrow[e].collateral_amount * governance.fee_rate < U64Modulus)
        => LET fee == ExactFee(escrow[e].collateral_amount, governance.fee_rate)
           IN  /\ amount' = AfterSettlement(amount, last'.ctx, last'.args.is_itm,
                                            escrow[e].collateral_amount - fee, fee)
               /\ escrow'[e].is_exercised]_vars

\* C5: a settle_escrow or exercise_early one of whose two transfers failed fails
\* as a whole, and a failed one leaves every balance and the record as before.
C5_AllOrNothing ==
    [][IsSettlement(last'.op) =>
        /\ (last'.cpi < 2 => last'.result # "Ok")
        /\ (last'.result # "Ok" => amount' = amount /\ escrow' = escrow)]_vars

\* The first transfer succeeded and the second found too little left.
C5_Witness ==
    /\ IsSettlement(last.op)
    /\ last.cpi = 1
    /\ last.result = "InsufficientFunds"
    /\ ~escrow[last.e].is_exercised

\* C6: deposit_collateral from an account whose mint is not the record's
\* collateral_mint fails with IncorrectCollateralMint, whatever the amount and
\* the state of the record; no transfer is made and no balance changes.
C6_WrongMintDeposit ==
    [][\A e \in EscrowIds :
        (last'.op = "deposit_collateral" /\ last'.e = e /\ escrow[e].exists
            /\ MintOf(last'.ctx.user_collateral_account) # escrow[e].collateral_mint)
        => /\ last'.result = "IncorrectCollateralMint"
           /\ last'.cpi = 0
           /\ amount' = amount]_vars

C6_Witness ==
    /\ last.op = "deposit_collateral"
    /\ last.result = "IncorrectCollateralMint"
    /\ MintOf(last.ctx.user_collateral_account) # escrow[last.e].collateral_mint

\* The errors that refuse a caller for who it is.
AuthorizationErrors == {"AccountNotSigner", "ConstraintHasOne"}

\* C7: update_governance and transfer_governance signed by an identity other
\* than the record's governance_authority fail with an authorization error,
\* whichever account the caller passes as the authority, and leave the record
\* as it was; the record, once created, changes only in a step of one of the two
\* instructions signed by the authority it had before the step.
C7_OnlyAuthority ==
    [][governance.exists =>
        /\ (IsGovernanceUpdate(last'.op)
              /\ last'.ctx.signer # governance.governance_authority)
            => (last'.result \in AuthorizationErrors /\ governance' = governance)
        /\ governance' # governance
            => /\ IsGovernanceUpdate(last'.op)
               /\ last'.result = "Ok"
               /\ last'.ctx.signer = governance.governance_authority]_vars

\* Another identity passed its own key as the authority and was refused.
C7_Witness ==
    /\ IsGovernanceUpdate(last.op)
    /\ last.result = "ConstraintHasOne"
    /\ last.ctx.signer # governance.governance_authority

\* C8: a successful transfer_governance(new) makes `new` the authority at once
\* and changes neither fee_rate nor fee_collector; in the state it leaves, with
\* new different from the old authority, update_governance and
\* transfer_governance fail for the old authority and pass for the new one; and
\* the authority changes in no other way than a successful transfer_governance
\* signed by the authority of the moment.
C8_OneStepHandoff ==
    [][/\ (last'.op = "transfer_governance" /\ last'.result = "Ok")
            => /\ governance'.governance_authority = last'.args.new_governance_authority
               /\ governance'.fee_rate = governance.fee_rate
               /\ governance'.fee_collector = governance.fee_collector
       /\ (last.op = "transfer_governance" /\ last.result = "Ok"
              /\ last.args.new_governance_authority # last.ctx.signer
              /\ IsGovernanceUpdate(last'.op))
            => /\ last'.ctx.signer = last.ctx.signer
                    => last'.result \in AuthorizationErrors
               /\ (last'.ctx.signer = last.args.new_governance_authority /\ IsSigner(last'.ctx))
                    => last'.result = "Ok"
       /\ (governance.exists
              /\ governance'.governance_authority # governance.governance_authority)
            => /\ last'.op = "transfer_governance"
               /\ last'.result = "Ok"
               /\ last'.ctx.signer = governance.governance_authority
               /\ governance'.governance_authority = last'.args.new_governance_authority]_vars

\* The authority has just handed the record over to another signer.
C8_Witness ==
    /\ last.op = "transfer_governance"
    /\ last.result = "Ok"
    /\ last.args.new_governance_authority # last.ctx.signer
    /\ governance.governance_authority = last.args.new_governance_authority

\* C9: a successful initialize_escrow creates the record with the terms given,
\* initializer = the signer and is_exercised = false, and moves exactly
\* floor(collateral_amount * fee_rate / 10000) from the initializer's account of
\* the record's collateral_mint to the fee collector, and nothing else; a failed
\* one creates no record.
C9_InitializeChargesFee ==
    [][\A e \in EscrowIds :
        (last'.op = "initialize_escrow" /\ last'.e = e) =>
            IF last'.result = "Ok"
            THEN LET ctx == last'.ctx
                     from == ctx.initializer_collateral_account
                     fee == ExactFee(last'.args.collateral_amount, governance.fee_rate)
                 IN  /\ escrow'[e] = [exists |-> TRUE,
                                      initializer_key |-> ctx.initializer,
                                      option_type |-> last'.args.option_type,
                                      strike_price |-> last'.args.strike_price,
                                      expiration |-> last'.args.expiration,
                                      collateral_amount |-> last'.args.collateral_amount,
                                      collateral_mint |-> last'.args.collateral_mint,
                                      is_exercised |-> FALSE]
                     /\ OwnerOf(from) = ctx.initializer
                     /\ MintOf(from) = last'.args.collateral_mint
                     /\ amount' = [acc \in TokenAccounts |->
                                      amount[acc]
                                      - (IF acc = from THEN fee ELSE 0)
                                      + (IF acc = ctx.fee_collector THEN fee ELSE 0)]
            ELSE escrow'[e] = escrow[e] /\ amount' = amount]_vars

\* C9 without its two faults: the fee is the one the width computes, and the
\* mint charged is the mint of the account passed, not the record's.
C9_InitializeAsCoded ==
    [][\A e \in EscrowIds :
        (last'.op = "initialize_escrow" /\ last'.e = e) =>
            IF last'.result = "Ok"
            THEN LET ctx == last'.ctx
                     from == ctx.initializer_collateral_account
                     fee == FeeOf(last'.args.collateral_amount, governance.fee_rate,
                                  overflow_checks)
                 IN  /\ ~escrow[e].exists
                     /\ escrow'[e].initializer_key = ctx.initializer
                     /\ escrow'[e].collateral_amount = last'.args.collateral_amount
                     /\ ~escrow'[e].is_exercised
                     /\ OwnerOf(from) = ctx.initializer
                     /\ MintOf(from) = MintOf(ctx.fee_collector)
                     /\ amount' = [acc \in TokenAccounts |->
                                      amount[acc]
                                      - (IF acc = from THEN fee ELSE 0)
                                      + (IF acc = ctx.fee_collector THEN fee ELSE 0)]
            ELSE escrow'[e] = escrow[e] /\ amount' = amount]_vars

\* C10: for a rate of at most 10000, the fee and the remainder the settlement
\* computes add up to the amount, and the fee is at most the amount.
C10_FeePlusRemainder ==
    (last.op = "fee" /\ last.args.fee_rate <= BasisPoints /\ last.result.fee # Panic)
    => /\ last.result.amount_after_fee # Panic
       /\ last.result.fee + last.result.amount_after_fee = last.args.collateral_amount
       /\ last.result.fee <= last.args.collateral_amount

\* A fee computed from a product that wrapped.
C10_Witness ==
    /\ last.op = "fee"
    /\ last.args.fee_rate <= BasisPoints
    /\ last.args.collateral_amount * last.args.fee_rate >= U64Modulus
    /\ last.result.fee # Panic
    /\ last.result.fee > 0

\* The token accounts a call passes as the source or the destination of one of
\* its transfers.
TransferAccounts(op, ctx, args) ==
    CASE op = "initialize_escrow" ->
            {ctx.initializer_collateral_account, ctx.fee_collector}
      [] op = "deposit_collateral" ->
            {ctx.user_collateral_account, ctx.escrow_collateral_account}
      [] IsSettlement(op) ->
            {ctx.escrow_collateral_account, ctx.fee_collector,
             IF args.is_itm THEN ctx.user_collateral_account
             ELSE ctx.initializer_collateral_account}
      [] OTHER -> {}

\* The collateral_mint of the record a call is about: the one it is given when
\* it creates the record, the record's own otherwise.
RecordMint(op, esc, args) ==
    IF op = "initialize_escrow" THEN args.collateral_mint ELSE esc.collateral_mint

\* C11: an initialize_escrow, deposit_collateral, settle_escrow or
\* exercise_early one of whose transfer accounts, source or destination, has a
\* mint other than the record's collateral_mint is rejected, and no balance and
\* no record changes.
C11_TransfersUseCollateralMint ==
    [][\A e \in EscrowIds :
        (last'.e = e
            /\ (last'.op = "initialize_escrow" \/ escrow[e].exists)
            /\ \E acc \in TransferAccounts(last'.op, last'.ctx, last'.args) :
                  MintOf(acc) # RecordMint(last'.op, escrow[e], last'.args))
        => /\ last'.result # "Ok"
           /\ amount' = amount
           /\ escrow' = escrow]_vars

\* The terms of a record, the fields written when it is created.
Terms(esc) ==
    [initializer_key |-> esc.initializer_key,
     option_type |-> esc.option_type,
     strike_price |-> esc.strike_price,
     expiration |-> esc.expiration,
     collateral_amount |-> esc.collateral_amount,
     collateral_mint |-> esc.collateral_mint]

\* C12: a record that exists keeps existing, and no step, of whatever
\* instruction and whether it succeeds or fails, changes its collateral_amount,
\* initializer, option_type, strike_price, expiration or collateral_mint; a
\* record a step changes differs from the one before in is_exercised alone.
C12_TermsFixed ==
    [][\A e \in EscrowIds :
        escrow[e].exists =>
            /\ escrow'[e].exists
            /\ Terms(escrow'[e]) = Terms(escrow[e])
            /\ escrow'[e] # escrow[e]
                  => escrow'[e] = [escrow[e] EXCEPT !.is_exercised = ~escrow[e].is_exercised]]_vars

\* A settlement has just written the record; its collateral_amount is still the
\* one given at creation, though the holding account held more.
C12_Witness ==
    /\ IsSettlement(last.op)
    /\ last.result = "Ok"
    /\ escrow[last.e].is_exercised
    /\ escrow[last.e].collateral_amount = 1
    /\ amount["ea"] > 0

\* C13: no call returns CannotExerciseEarly; an exercise_early on a record not
\* yet exercised, Call or Put, is refused neither for the time nor for the
\* option type: at any time, before the expiration too, its result is the one
\* of the settlement transfers.
C13_EarlyExerciseUnguarded ==
    [][/\ last'.result # "CannotExerciseEarly"
       /\ \A e \in EscrowIds :
            (last'.op = "exercise_early" /\ last'.e = e /\ escrow[e].exists
                /\ governance.exists /\ ~escrow[e].is_exercised)
            => /\ escrow[e].option_type \in OptionTypes
               /\ last'.result # "OptionNotExpired"
               /\ last'.result =
                    SettlementTransfers(escrow[e], governance, amount, overflow_checks,
                                        last'.ctx, last'.args.is_itm).result]_vars

\* A Put has been settled through exercise_early before its expiration.
C13_Witness ==
    /\ last.op = "exercise_early"
    /\ last.result = "Ok"
    /\ escrow[last.e].option_type = "Put"
    /\ Exercised(escrow[last.e])
    /\ now < escrow[last.e].expiration

\* C14: in a successful settle_escrow or exercise_early with is_itm = false,
\* whoever submits it and whatever accounts it passes, the one account credited
\* besides the fee account belongs to the record's initializer.
C14_RefundToInitializer ==
    [][\A e \in EscrowIds :
        (IsSettlement(last'.op) /\ last'.e = e /\ last'.result = "Ok"
            /\ ~last'.args.is_itm)
        => \A acc \in TokenAccounts :
              (amount'[acc] > amount[acc] /\ acc # last'.ctx.fee_collector)
              => OwnerOf(acc) = escrow[e].initializer_key]_vars

\* The instructions that charge a fee.
ChargesFee(op) == op = "initialize_escrow" \/ IsSettlement(op)

\* C15: a fee a successful initialize_escrow, settle_escrow or exercise_early
\* pays is credited to the fee_collector the governance record names when the
\* instruction runs, the one of the last successful update_governance, whatever
\* accounts the caller passes.
C15_FeeToGovernanceCollector ==
    [][(ChargesFee(last'.op) /\ last'.result = "Ok"
          /\ amount'[last'.ctx.fee_collector] > amount[last'.ctx.fee_collector])
       => last'.ctx.fee_collector = governance.fee_collector]_vars

\* A call of deposit_collateral, settle_escrow or exercise_early on the
\* balances bal and the records recs, as the action of the instruction makes it
\* in the current state: its result, and the balances and the records it leaves.
ApplyCall(bal, recs, c) ==
    LET esc == recs[c.e]
        v == IF c.op = "deposit_collateral" THEN DepositCollateral(esc)
             ELSE SettleEscrow(esc, governance)
        out == IF v # "Ok" THEN Rejected(v)
               ELSE CASE c.op = "deposit_collateral" ->
                            deposit_collateral(esc, bal, c.ctx, c.args.amount)
                      [] c.op = "settle_escrow" ->
                            settle_escrow(esc, governance, bal, now, overflow_checks,
                                          c.ctx, c.args.is_itm)
                      [] c.op = "exercise_early" ->
                            exercise_early(esc, governance, bal, overflow_checks,
                                           c.ctx, c.args.is_itm)
    IN  IF out.result = "Ok"
        THEN [result |-> "Ok", amount |-> out.amount,
              escrow |-> [recs EXCEPT ![c.e] = out.record]]
        ELSE [result |-> out.result, amount |-> bal, escrow |-> recs]

\* Every step of the three instructions is the call ApplyCall computes.
ApplyCallIsTheStep ==
    [][last'.op \in {"deposit_collateral", "settle_escrow", "exercise_early"} =>
        LET r == ApplyCall(amount, escrow, [op |-> last'.op, e |-> last'.e,
                                            ctx |-> last'.ctx, args |-> last'.args])
        IN  /\ last'.result = r.result
            /\ amount' = r.amount
            /\ escrow' = r.escrow]_vars

\* The calls on the record e that the callers of D can make.
CallsOn(e, D) ==
    {[op |-> "deposit_collateral", e |-> e, ctx |-> ctx, args |-> [amount |-> amt]] :
        ctx \in D.deposit_ctxs, amt \in D.deposit_amounts}
    \cup
    {[op |-> op, e |-> e, ctx |-> ctx, args |-> [is_itm |-> is_itm]] :
        op \in {"settle_escrow", "exercise_early"}, ctx \in D.settle_ctxs,
        is_itm \in BOOLEAN}

\* The two calls give the same results and leave the same balances and records
\* in either order.
Commute(cA, cB) ==
    LET a1 == ApplyCall(amount, escrow, cA)
        b2 == ApplyCall(a1.amount, a1.escrow, cB)
        b1 == ApplyCall(amount, escrow, cB)
        a2 == ApplyCall(b1.amount, b1.escrow, cA)
    IN  /\ a1.result = a2.result
        /\ b1.result = b2.result
        /\ b2.amount = a2.amount
        /\ b2.escrow = a2.escrow

\* C16: in every reachable state, for two distinct records A and B, a
\* deposit_collateral, settle_escrow or exercise_early on A and one on B, with
\* whatever accounts the callers pass, give each the same result and together
\* the same records and balances whichever of the two runs first.
C16_RecordsIndependent ==
    \A eA \in EscrowIds : \A eB \in EscrowIds \ {eA} :
        \A cA \in CallsOn(eA, PairInputs), cB \in CallsOn(eB, PairInputs) :
            Commute(cA, cB)

\* The account a call's transfers debit, and the accounts they debit or credit.
DebitedBy(c) ==
    IF c.op = "deposit_collateral" THEN c.ctx.user_collateral_account
    ELSE c.ctx.escrow_collateral_account

TouchedBy(c) == TransferAccounts(c.op, c.ctx, c.args)

\* C16 for two calls neither of which debits an account the other debits or
\* credits: this part of the claim holds of the code.
C16_IndependentOnSeparateAccounts ==
    \A eA \in EscrowIds : \A eB \in EscrowIds \ {eA} :
        \A cA \in CallsOn(eA, PairInputs), cB \in CallsOn(eB, PairInputs) :
            (DebitedBy(cA) \notin TouchedBy(cB) /\ DebitedBy(cB) \notin TouchedBy(cA))
            => Commute(cA, cB)

\* C16 for two settlements alone: violated as well, where the two records are
\* settled out of one holding account that covers one of them.
C16_SettlementsIndependent ==
    \A eA \in EscrowIds : \A eB \in EscrowIds \ {eA} :
        \A cA \in CallsOn(eA, PairInputs), cB \in CallsOn(eB, PairInputs) :
            (IsSettlement(cA.op) /\ IsSettlement(cB.op)) => Commute(cA, cB)

\* C17: for every amount of the width and every rate of at most 10000, the fee
\* the program computes is floor(collateral_amount * fee_rate / 10000) of the
\* unbounded integers: the product neither wraps nor aborts the computation.
C17_FeeExactInWidth ==
    (last.op = "fee" /\ last.args.fee_rate <= BasisPoints)
    => /\ last.result.fee # Panic
       /\ last.result.fee = ExactFee(last.args.collateral_amount, last.args.fee_rate)

\* The lifecycle and account errors, returned before the fee is computed.
RefusedBeforeFee ==
    {"AccountNotInitialized", "OptionAlreadyExercised", "OptionNotExpired",
     "CannotExerciseEarly"}

\* C18: a settle_escrow or exercise_early that computes, under a rate above
\* 10000, a fee greater than the record's collateral_amount fails with an
\* arithmetic error, and leaves every balance and is_exercised as they were; it
\* does not go on to transfer collateral_amount - fee wrapped.
C18_NoWrappedNet ==
    [][\A e \in EscrowIds :
        (IsSettlement(last'.op) /\ last'.e = e
            /\ last'.result \notin RefusedBeforeFee
            /\ governance.fee_rate > BasisPoints
            /\ FeeOf(escrow[e].collateral_amount, governance.fee_rate, overflow_checks)
                  > escrow[e].collateral_amount)
        => /\ last'.result = "ArithmeticPanic"
           /\ amount' = amount
           /\ escrow'[e].is_exercised = escrow[e].is_exercised]_vars

\* C18 as the code has it: the call fails and changes nothing, with an
\* arithmetic error in a build that traps overflow, and in a build that wraps
\* with the token program's InsufficientFunds for the wrapped amount.
C18_WrappedNetRefusedByTransfer ==
    [][\A e \in EscrowIds :
        (IsSettlement(last'.op) /\ last'.e = e
            /\ last'.result \notin RefusedBeforeFee
            /\ governance.fee_rate > BasisPoints
            /\ FeeOf(escrow[e].collateral_amount, governance.fee_rate, overflow_checks)
                  > escrow[e].collateral_amount)
        => /\ last'.result \in {"ArithmeticPanic", "InsufficientFunds"}
           /\ (last'.result = "ArithmeticPanic") = overflow_checks
           /\ amount' = amount
           /\ escrow' = escrow]_vars

\* C19: a deposit_collateral on a record that exists, from the depositor's own
\* account of the record's collateral_mint holding at least the amount, into a
\* holding account of that mint, succeeds whatever the amount, the time and the
\* record's is_exercised; it moves exactly the amount from the one account to
\* the other, nothing to a fee account, and leaves the record as it was.  A
\* settlement that gets as far as its transfers, with accounts of one mint, the
\* holding account's authority and a fee of at most collateral_amount, succeeds
\* if and only if the holding account holds collateral_amount.
C19_DepositUnconditional ==
    [][\A e \in EscrowIds :
        /\ (last'.op = "deposit_collateral" /\ last'.e = e /\ escrow[e].exists)
           => LET from == last'.ctx.user_collateral_account
                  to == last'.ctx.escrow_collateral_account
                  amt == last'.args.amount
              IN  (MintOf(from) = escrow[e].collateral_mint /\ MintOf(to) = MintOf(from)
                      /\ OwnerOf(from) = last'.ctx.user /\ from # to
                      /\ amount[from] >= amt)
                  => /\ last'.result = "Ok"
                     /\ amount' = [amount EXCEPT ![from] = @ - amt, ![to] = @ + amt]
                     /\ escrow' = escrow
        /\ (IsSettlement(last'.op) /\ last'.e = e
              /\ last'.result \notin RefusedBeforeFee)
           => LET ctx == last'.ctx
                  holding == ctx.escrow_collateral_account
                  fee == FeeOf(escrow[e].collateral_amount, governance.fee_rate,
                               overflow_checks)
              IN  (fee # Panic /\ fee <= escrow[e].collateral_amount
                      /\ OwnerOf(holding) = ctx.escrow_authority
                      /\ \A acc \in TransferAccounts(last'.op, ctx, last'.args) :
                            MintOf(acc) = MintOf(holding))
                  => (last'.result = "Ok")
                        = (amount[holding] >= escrow[e].collateral_amount)]_vars

\* A deposit made after the expiration into a record already settled.
C19_Witness ==
    /\ last.op = "deposit_collateral"
    /\ last.result = "Ok"
    /\ last.args.amount > 0
    /\ Exercised(escrow[last.e])
    /\ now > escrow[last.e].expiration

RECURSIVE SumOver(_, _)
SumOver(bal, accs) ==
    IF accs = {} THEN 0
    ELSE LET acc == CHOOSE a \in accs : TRUE
         IN  bal[acc] + SumOver(bal, accs \ {acc})

\* The tokens of a mint that the accounts hold together.
SupplyOf(bal, mint) == SumOver(bal, {acc \in TokenAccounts : MintOf(acc) = mint})

\* The accounts a successful call may debit and the ones it may credit.
MayDebit(op, ctx) ==
    CASE op = "initialize_escrow" -> {ctx.initializer_collateral_account}
      [] op = "deposit_collateral" -> {ctx.user_collateral_account}
      [] IsSettlement(op) -> {ctx.escrow_collateral_account}
      [] OTHER -> {}

MayCredit(op, ctx, args) == TransferAccounts(op, ctx, args) \ MayDebit(op, ctx)

\* C20: the tokens of each mint add up, after every step, to what they were at
\* the start, and no balance is negative; a governance instruction, a failed
\* instruction and the clock move nothing; a successful initialize_escrow takes
\* only from the initializer's account and gives only to the fee account, a
\* deposit_collateral only from the depositor's to the holding account, a
\* settlement only from the holding account to the recipient and the fee
\* account.
C20_TokensConserved ==
    [][/\ \A mint \in Mints : SupplyOf(amount', mint) = SupplyOf(InitialAmount, mint)
       /\ \A acc \in TokenAccounts : amount'[acc] >= 0
       /\ (last'.result # "Ok" \/ ~(ChargesFee(last'.op) \/ last'.op = "deposit_collateral"))
            => amount' = amount
       /\ \A acc \in TokenAccounts :
            /\ amount'[acc] < amount[acc] => acc \in MayDebit(last'.op, last'.ctx)
            /\ amount'[acc] > amount[acc]
                  => acc \in MayCredit(last'.op, last'.ctx, last'.args)]_vars

\* Tokens have gone from the initializer through the holding account to the
\* holder and to the fee account.
C20_Witness ==
    /\ IsSettlement(last.op)
    /\ last.result = "Ok"
    /\ amount["ia"] < InitialAmount["ia"]
    /\ amount["ua"] > InitialAmount["ua"]
    /\ amount["fa"] > 0
    /\ amount["ea"] > 0

====
